---- MODULE Spec2Model ----
(***************************************************************************)
(* The Threshold module of CellProfiler (cellprofiler/modules/threshold.py)*)
(* as a state machine: the module's settings, the return value of the most *)
(* recent get_threshold call, the measurements and images run() wrote, and *)
(* the outcome of validate_module; beside it, the module's upgrade of      *)
(* saved settings, the library's create_ijv and the Robust Background      *)
(* estimate, each with the outcome of its most recent call.                *)
(*   settings   : the value of every setting of the module                 *)
(*   input      : the image, mask and image measurement of the last run    *)
(*   calls      : the library calls the last get_threshold made, in order  *)
(*   ret        : what the last get_threshold returned, or what it raised  *)
(*   workspace  : the measurements and images the last run() added         *)
(*   validation : what the last validate_module did                        *)
(*   upgrade    : the last upgrade_settings call, arguments and outcome    *)
(*   ijv_call   : the last create_ijv call, the matrix and the rows        *)
(*   rb         : the last Robust Background estimates and their samples   *)
(*                                                                         *)
(* Intensities, thresholds, fractions and the correction factor are floats *)
(* in the program.  They are fixed-point numbers here: the integer n       *)
(* stands for n / One, and every value the model draws is chosen so that   *)
(* the products and sums the code forms are exact.                         *)
(***************************************************************************)
EXTENDS Integers, Sequences, FiniteSets, TLC

VARIABLES settings, input, calls, ret, workspace, validation, upgrade, ijv_call, rb

(* The state of the Threshold module and of its last run.                  *)
module_vars == <<settings, input, calls, ret, workspace, validation>>
(* The state of the calls made outside a run.                              *)
call_vars == <<upgrade, ijv_call, rb>>

vars == <<settings, input, calls, ret, workspace, validation, upgrade, ijv_call, rb>>

----------------------------------------------------------------------------
(* Constants of threshold.py, lines 49-68.                                 *)

O_TWO_CLASS == "Two classes"
O_THREE_CLASS == "Three classes"
O_FOREGROUND == "Foreground"
O_BACKGROUND == "Background"
RB_MEAN == "Mean"
RB_MEDIAN == "Median"
RB_MODE == "Mode"
RB_SD == "Standard deviation"
RB_MAD == "Median absolute deviation"
TS_GLOBAL == "Global"
TS_ADAPTIVE == "Adaptive"
TM_MANUAL == "Manual"
TM_MEASUREMENT == "Measurement"
TM_LI == "Minimum Cross-Entropy"
TM_OTSU == "Otsu"
TM_ROBUST_BACKGROUND == "Robust Background"
TM_SAUVOLA == "Sauvola"
TS_ALL == {TS_GLOBAL, TS_ADAPTIVE}

(* The choices of the two method settings (create_settings).               *)
GlobalOperations == {TM_LI, TM_OTSU, TM_ROBUST_BACKGROUND, TM_MEASUREMENT, TM_MANUAL}
LocalOperations == {TM_LI, TM_OTSU, TM_ROBUST_BACKGROUND, TM_SAUVOLA}

(* The fixed-point unit: One stands for the float 1.0.                     *)
One == 80

----------------------------------------------------------------------------
(* Bounds of the model.                                                    *)

(* Number of pixels of the input image (one row of ImgLen pixels).         *)
ImgLen == 2
(* Largest number of settings that differ from their default value.        *)
MaxEdited == 3

Pixels == 1..ImgLen
(* Input images: the uniform images of intensity 0, 0.5 and 1, and the     *)
(* images whose first pixel differs from the others (1 before 0, 0 before  *)
(* 1, 0.5 before 1).                                                       *)
Images ==
    {[p \in Pixels |-> v] : v \in {0, 40, One}}
    \cup {[p \in Pixels |-> IF p = 1 THEN first ELSE others] :
              <<first, others>> \in {<<One, 0>>, <<0, One>>, <<40, One>>}}
(* Masks: every pixel valid, none valid, all but the first, the first only. *)
Masks ==
    {[p \in Pixels |-> TRUE], [p \in Pixels |-> FALSE],
     [p \in Pixels |-> p # 1], [p \in Pixels |-> p = 1]}
(* Values of the image measurement a Measurement threshold reads.          *)
MeasValues == {20, 40, 80}
(* Values a global estimator may return (0.25 and 0.75).                   *)
RawLevels == {20, 60}
(* Values the adaptive engine may estimate at a pixel before clamping.     *)
LocalLevels == {20, 80}
(* The per-pixel estimates of the adaptive engine: one value at the odd    *)
(* pixels and the other at the even pixels, either way round, so that each *)
(* pixel meets each value and the estimates of one image differ.           *)
LocalSurfaces ==
    {[p \in Pixels |-> IF p % 2 = 1 THEN ab[1] ELSE ab[2]] :
         ab \in {x \in LocalLevels \X LocalLevels : x[1] # x[2]}}

Min(a, b) == IF a <= b THEN a ELSE b
Max(a, b) == IF a >= b THEN a ELSE b

(* Product of two fixed-point numbers.                                     *)
Mul(a, b) == (a * b) \div One

NoneValue == [kind |-> "None"]
Scalar(x) == [kind |-> "scalar", val |-> x]
Array(a) == [kind |-> "array", val |-> a]
(* The value of a scalar or per-pixel threshold at pixel p.                *)
At(t, p) == IF t.kind = "scalar" THEN t.val ELSE t.val[p]

----------------------------------------------------------------------------
(* Settings.                                                               *)

(* create_settings: the value of every setting after construction.         *)
DefaultSettings ==
    [threshold_scope |-> TS_GLOBAL,
     global_operation |-> TM_LI,
     local_operation |-> TM_LI,
     threshold_smoothing_scale |-> 0,
     threshold_correction_factor |-> One,
     threshold_range |-> [min |-> 0, max |-> One],
     manual_threshold |-> 0,
     thresholding_measurement |-> "Intensity_MeanIntensity_DNA",
     two_class_otsu |-> O_TWO_CLASS,
     log_transform |-> FALSE,
     assign_middle_to_foreground |-> O_FOREGROUND,
     adaptive_window_size |-> 50,
     lower_outlier_fraction |-> 4,
     upper_outlier_fraction |-> 4,
     averaging_method |-> RB_MEAN,
     variance_method |-> RB_SD,
     number_of_deviations |-> 2 * One,
     x_name |-> "DNA",
     y_name |-> "Threshold"]

(* The values the model gives each setting a user can edit.                *)
SettingValues ==
    [threshold_scope |-> TS_ALL,
     global_operation |-> GlobalOperations,
     local_operation |-> LocalOperations,
     threshold_smoothing_scale |-> {0, One},
     threshold_correction_factor |-> {40, One, 160},
     threshold_range |-> {[min |-> 0, max |-> One], [min |-> 20, max |-> 60],
                          [min |-> 20, max |-> 40], [min |-> 60, max |-> 20]},
     manual_threshold |-> {0, 40},
     two_class_otsu |-> {O_TWO_CLASS, O_THREE_CLASS},
     log_transform |-> BOOLEAN,
     adaptive_window_size |-> {50, 0},
     lower_outlier_fraction |-> {4, 76},
     upper_outlier_fraction |-> {4, 76}]

Editable == DOMAIN SettingValues

(* Number of editable settings whose value is not the default.             *)
Edited(s) == Cardinality({n \in Editable : s[n] # DefaultSettings[n]})

(* threshold_operation: the method of the active strategy.                 *)
threshold_operation(s) ==
    IF s.threshold_scope = TS_GLOBAL
    THEN s.global_operation
    ELSE s.local_operation

----------------------------------------------------------------------------
(* Threshold.convert_setting: every space and every hyphen becomes an      *)
(* underscore.                                                             *)

RECURSIVE replace(_, _, _)
(* str.replace(old, new) for a one-character old.                          *)
replace(str, old, new) ==
    IF str = ""
    THEN ""
    ELSE (IF SubSeq(str, 1, 1) = old THEN new ELSE SubSeq(str, 1, 1))
             \o replace(SubSeq(str, 2, Len(str)), old, new)

(* convert_setting(gui_setting_str).                                       *)
convert_setting(gui_setting_str) ==
    replace(replace(gui_setting_str, " ", "_"), "-", "_")

(* convert_setting of every value get_threshold converts, computed once.   *)
converted ==
    [str \in GlobalOperations \cup LocalOperations \cup {RB_SD, RB_MAD} |->
        convert_setting(str)]

----------------------------------------------------------------------------
(* The library: cellprofiler.library.modules.threshold and                 *)
(* cellprofiler.library.functions.image_processing.apply_threshold.  Their *)
(* code is not in the module's file; they are modelled as the design       *)
(* specification describes them (sections 4.1 to 4.6, 6 and 7).  What an   *)
(* estimator computes from an image is an input of the model: any value of *)
(* RawLevels for a global estimate, any surface of LocalSurfaces for the   *)
(* per-pixel estimates of the adaptive engine.                             *)

(* Weight of a sample at distance d from the pixel being smoothed: the     *)
(* Gaussian kernel, cut off after the nearest neighbour.                   *)
KernelWeight(d) == IF d = 0 THEN 2 ELSE IF d = 1 THEN 1 ELSE 0

(* Distance between the pixels p and q of the row.                         *)
Dist(p, q) == IF p >= q THEN p - q ELSE q - p

RECURSIVE SumOver(_, _)
(* The sum of f[p] over the pixels p of the set S.                         *)
SumOver(f, S) ==
    IF S = {}
    THEN 0
    ELSE LET p == CHOOSE q \in S : TRUE
         IN  f[p] + SumOver(f, S \ {p})

(* Mask-aware smoothing: each pixel becomes the weighted mean of the valid *)
(* samples around it, normalised by the summed weight of the valid samples *)
(* and not by the whole kernel.  The value is the fraction num / den.  No  *)
(* smoothing when the scale is 0.                                          *)
smooth(image, mask, smoothing) ==
    [p \in DOMAIN image |->
        LET valid == {q \in DOMAIN image : mask[q]}
            num == SumOver([q \in DOMAIN image |-> KernelWeight(Dist(p, q)) * image[q]], valid)
            den == SumOver([q \in DOMAIN image |-> KernelWeight(Dist(p, q))], valid)
        IN  IF smoothing = 0 \/ den = 0
            THEN [num |-> image[p], den |-> 1]
            ELSE [num |-> num, den |-> den]]

(* The standard deviation of the kernel, smoothing / 0.674, as a fraction; *)
(* 0 when no smoothing was applied.                                        *)
sigma_used(smoothing) ==
    IF smoothing = 0
    THEN [num |-> 0, den |-> 1]
    ELSE [num |-> smoothing * 1000, den |-> 674 * One]

(* apply_threshold(image, threshold, mask, smoothing): smooth, then a      *)
(* pixel is foreground when it is valid and its smoothed intensity is at   *)
(* least the threshold at that pixel.                                      *)
apply_threshold(image, threshold, mask, smoothing) ==
    LET working == smooth(image, mask, smoothing)
    IN  [binary |-> [p \in DOMAIN image |->
                        mask[p] /\ working[p].num >= At(threshold, p) * working[p].den],
         sigma |-> sigma_used(smoothing)]

(* finalize: scale by the correction factor, then clamp into the range.    *)
finalize(raw_threshold, correction_factor, min_bound, max_bound) ==
    Min(Max(Mul(raw_threshold, correction_factor), min_bound), max_bound)

(* Step 5 of the adaptive engine: a local estimate is clamped into         *)
(* [0.7 * guide, 1.5 * guide].                                             *)
GuideLow(guide) == (7 * guide) \div 10
GuideHigh(guide) == (15 * guide) \div 10

(* As clamp_to_guide, but only the lower bound is applied.                 *)
clamp_to_guide_lower_only(local, guide) == Max(local, GuideLow(guide))

clamp_to_guide(local, guide) == Min(Max(local, GuideLow(guide)), GuideHigh(guide))

(* The method names the engine knows.                                      *)
EngineMethods ==
    {"Minimum_Cross_Entropy", "Otsu", "multiotsu", "Robust_Background", "Sauvola"}

(* The configurations the engine refuses before it computes anything: an   *)
(* unknown strategy or method name, outlier fractions that sum to 1 or     *)
(* more, min_bound > max_bound, a non-positive window size.                *)
ConfigurationError(a) ==
    \/ a.threshold_scope \notin TS_ALL
    \/ a.threshold_method \notin EngineMethods
    \/ a.threshold_scope = TS_GLOBAL /\ a.threshold_method = "Sauvola"
    \/ a.lower_outlier_fraction + a.upper_outlier_fraction >= One
    \/ a.threshold_min > a.threshold_max
    \/ a.window_size <= 0

(* The outcome of a call that raised error: nothing is returned.           *)
Raise(error) ==
    [raised |-> error, final_threshold |-> NoneValue, orig_threshold |-> NoneValue,
     guide_threshold |-> NoneValue, binary_image |-> <<>>, sigma |-> [num |-> 0, den |-> 1]]

(* The readings of the adaptive engine's postprocessing.  By the pipeline  *)
(* of sections 2, 4.3 and 4.5 the adaptive engine clamps its estimates to  *)
(* the guide and Postprocessing then scales and clamps into the range.  By *)
(* section 8 and the module's help text it is the final threshold that is  *)
(* held within the guide's bounds: the estimate is scaled and clamped into *)
(* the range, and last into the guide's bounds; or it is scaled and        *)
(* clamped once, from below by the larger of the two lower bounds and then *)
(* from above by the smaller of the two upper bounds.  The engine's code   *)
(* decides between them; the model takes any.                              *)
PostprocessingOrders ==
    {"guide, scale, range", "scale, range, guide", "scale, guide and range"}

(* The original and the final threshold at one pixel of the adaptive       *)
(* engine under each reading.                                              *)
adaptive_orig(order, local, guide) ==
    IF order = "guide, scale, range" THEN clamp_to_guide(local, guide) ELSE local

adaptive_final(order, local, guide, correction_factor, min_bound, max_bound) ==
    IF order = "guide, scale, range"
    THEN finalize(clamp_to_guide(local, guide), correction_factor, min_bound, max_bound)
    ELSE IF order = "scale, range, guide"
    THEN clamp_to_guide(finalize(local, correction_factor, min_bound, max_bound), guide)
    ELSE finalize(local, correction_factor,
                  Max(min_bound, GuideLow(guide)), Min(max_bound, GuideHigh(guide)))

(* threshold(image, mask, ...): the engine.  est holds what the estimators *)
(* compute from the image: est.global, the estimate over the whole image,  *)
(* and est.local, the interpolated (or Sauvola) estimate at each pixel;    *)
(* est.order is the reading of the adaptive postprocessing.                *)
threshold(image, a, est) ==
    IF ConfigurationError(a)
    THEN Raise("ConfigurationError")
    ELSE IF \A p \in DOMAIN image : ~a.mask[p]
    THEN Raise("DomainError")
    ELSE IF a.threshold_scope = TS_GLOBAL
    THEN LET orig == est.global
             final == finalize(orig, a.threshold_correction_factor,
                               a.threshold_min, a.threshold_max)
             applied == apply_threshold(image, Scalar(final), a.mask, a.smoothing)
         IN  [raised |-> "none",
              final_threshold |-> Scalar(final),
              orig_threshold |-> Scalar(orig),
              guide_threshold |-> NoneValue,
              binary_image |-> applied.binary,
              sigma |-> applied.sigma]
    ELSE LET guide == est.global
             orig == [p \in DOMAIN image |-> adaptive_orig(est.order, est.local[p], guide)]
             final == [p \in DOMAIN image |->
                          adaptive_final(est.order, est.local[p], guide,
                                         a.threshold_correction_factor,
                                         a.threshold_min, a.threshold_max)]
             applied == apply_threshold(image, Array(final), a.mask, a.smoothing)
         IN  [raised |-> "none",
              final_threshold |-> Array(final),
              orig_threshold |-> Array(orig),
              guide_threshold |-> Scalar(guide),
              binary_image |-> applied.binary,
              sigma |-> applied.sigma]

----------------------------------------------------------------------------
(* Threshold.get_threshold.                                                *)

(* As mask_argument, but the mask is left out of the call, so that the     *)
(* library takes every pixel as valid.                                     *)
mask_argument_omitted(inp) == [p \in DOMAIN inp.mask |-> TRUE]

(* The mask get_threshold hands to the library: the input image's mask.    *)
mask_argument(inp) == inp.mask

(* As manual_final_threshold, but corrected and clamped like a measured    *)
(* threshold.                                                              *)
manual_final_threshold_corrected(s) ==
    Min(Max(Mul(s.manual_threshold, s.threshold_correction_factor),
            s.threshold_range.min),
        s.threshold_range.max)

(* As manual_final_threshold, but the threshold range's lower bound is     *)
(* read in place of the manual value.                                      *)
manual_final_threshold_lower_bound(s) == s.threshold_range.min

(* The threshold the Manual branch uses: the manual value as entered.      *)
manual_final_threshold(s) == s.manual_threshold

(* As measurement_final_threshold, but the correction factor is not        *)
(* applied.                                                                *)
measurement_final_threshold_uncorrected(s, orig_threshold) ==
    Min(Max(orig_threshold, s.threshold_range.min), s.threshold_range.max)

(* The threshold the Measurement branch uses: the measurement times the    *)
(* correction factor, clamped into the threshold range (lines 859-861).    *)
measurement_final_threshold(s, orig_threshold) ==
    Min(Max(Mul(orig_threshold, s.threshold_correction_factor),
            s.threshold_range.min),
        s.threshold_range.max)

(* As threshold_method, but the method is read from global_operation      *)
(* under either strategy.                                                  *)
threshold_method_global_only(s) ==
    IF s.threshold_scope \in {"Global", "Adaptive"}
    THEN IF s.global_operation = "Otsu" /\ s.two_class_otsu = "Three classes"
         THEN "multiotsu"
         ELSE converted[s.global_operation]
    ELSE "unbound"

(* As threshold_method, but the method is read from local_operation under  *)
(* either strategy.                                                        *)
threshold_method_local_only(s) ==
    IF s.threshold_scope \in {"Global", "Adaptive"}
    THEN IF s.local_operation = "Otsu" /\ s.two_class_otsu = "Three classes"
         THEN "multiotsu"
         ELSE converted[s.local_operation]
    ELSE "unbound"

(* The method name for the library (lines 871-880).  An unknown strategy   *)
(* leaves threshold_method unbound.                                        *)
threshold_method(s) ==
    IF s.threshold_scope = "Global"
    THEN IF s.global_operation = "Otsu" /\ s.two_class_otsu = "Three classes"
         THEN "multiotsu"
         ELSE converted[s.global_operation]
    ELSE IF s.threshold_scope = "Adaptive"
    THEN IF s.local_operation = "Otsu" /\ s.two_class_otsu = "Three classes"
         THEN "multiotsu"
         ELSE converted[s.local_operation]
    ELSE "unbound"

(* The keyword arguments of the call of threshold() (lines 881-900).       *)
threshold_arguments(s, inp) ==
    [fn |-> "threshold",
     mask |-> mask_argument(inp),
     threshold_scope |-> s.threshold_scope,
     threshold_method |-> threshold_method(s),
     assign_middle_to_foreground |-> s.assign_middle_to_foreground,
     log_transform |-> s.log_transform,
     threshold_correction_factor |-> s.threshold_correction_factor,
     threshold_min |-> s.threshold_range.min,
     threshold_max |-> s.threshold_range.max,
     window_size |-> s.adaptive_window_size,
     smoothing |-> s.threshold_smoothing_scale,
     lower_outlier_fraction |-> s.lower_outlier_fraction,
     upper_outlier_fraction |-> s.upper_outlier_fraction,
     averaging_method |-> s.averaging_method,
     variance_method |-> converted[s.variance_method],
     number_of_deviations |-> s.number_of_deviations]

(* As apply_threshold_arguments, but the smoothing scale is not passed and *)
(* the library's default of 0 applies.                                     *)
apply_threshold_arguments_unsmoothed(s, inp, final_threshold) ==
    [fn |-> "apply_threshold",
     threshold |-> final_threshold,
     mask |-> mask_argument(inp),
     smoothing |-> 0]

(* The arguments of a call of apply_threshold (lines 847-852, 863-868).    *)
apply_threshold_arguments(s, inp, final_threshold) ==
    [fn |-> "apply_threshold",
     threshold |-> final_threshold,
     mask |-> mask_argument(inp),
     smoothing |-> s.threshold_smoothing_scale]

(* What the Manual and Measurement branches return: the thresholds and the *)
(* binary image and sigma of their one call of apply_threshold.            *)
applied_result(inp, final_threshold, orig_threshold, call) ==
    LET applied == apply_threshold(inp.image, call.threshold, call.mask, call.smoothing)
    IN  [raised |-> "none",
         final_threshold |-> final_threshold,
         orig_threshold |-> orig_threshold,
         guide_threshold |-> NoneValue,
         binary_image |-> applied.binary,
         sigma |-> applied.sigma]

(* get_threshold(input_image, workspace): the library calls it makes and   *)
(* what it returns.  inp is the image, its mask and the workspace's image  *)
(* measurement; est is what the estimators compute from the image.         *)
get_threshold(s, inp, est) ==
    IF threshold_operation(s) = TM_MANUAL
    THEN LET final_threshold == Scalar(manual_final_threshold(s))
             orig_threshold == Scalar(s.manual_threshold)
             call == apply_threshold_arguments(s, inp, final_threshold)
         IN  [calls |-> <<call>>,
              ret |-> applied_result(inp, final_threshold, orig_threshold, call)]
    ELSE IF threshold_operation(s) = TM_MEASUREMENT
    THEN LET orig_threshold == Scalar(inp.measurement)
             final_threshold == Scalar(measurement_final_threshold(s, inp.measurement))
             call == apply_threshold_arguments(s, inp, final_threshold)
         IN  [calls |-> <<call>>,
              ret |-> applied_result(inp, final_threshold, orig_threshold, call)]
    ELSE IF s.threshold_scope \notin {"Global", "Adaptive"}
    THEN [calls |-> <<>>, ret |-> Raise("UnboundLocalError")]
    ELSE LET call == threshold_arguments(s, inp)
         IN  [calls |-> <<call>>,
              ret |-> threshold(inp.image, call, est)]

----------------------------------------------------------------------------
(* Measurements and run().                                                 *)

(* numpy.mean(numpy.atleast_1d(value)), as the fraction num / den.         *)
mean(value) ==
    IF value.kind = "scalar"
    THEN [num |-> value.val, den |-> 1]
    ELSE [num |-> SumOver(value.val, DOMAIN value.val), den |-> Len(value.val)]

(* As add_threshold_measurements, but the guide threshold is written       *)
(* under either strategy.                                                  *)
add_threshold_measurements_always_guide(s, objname, final_threshold, orig_threshold, guide_threshold) ==
    <<[object |-> "Image", feature |-> "Threshold_FinalThreshold_" \o objname,
       value |-> mean(final_threshold)],
      [object |-> "Image", feature |-> "Threshold_OrigThreshold_" \o objname,
       value |-> mean(orig_threshold)],
      [object |-> "Image", feature |-> "Threshold_GuideThreshold_" \o objname,
       value |-> guide_threshold]>>

(* add_threshold_measurements: the measurements it adds, in order.         *)
add_threshold_measurements(s, objname, final_threshold, orig_threshold, guide_threshold) ==
    <<[object |-> "Image", feature |-> "Threshold_FinalThreshold_" \o objname,
       value |-> mean(final_threshold)],
      [object |-> "Image", feature |-> "Threshold_OrigThreshold_" \o objname,
       value |-> mean(orig_threshold)]>>
    \o (IF s.threshold_scope = TS_ADAPTIVE
        THEN <<[object |-> "Image", feature |-> "Threshold_GuideThreshold_" \o objname,
                value |-> guide_threshold]>>
        ELSE <<>>)

(* add_fg_bg_measurements: the two measurements centrosome computes from   *)
(* the image, its mask and the binary image; each value is kept as the     *)
(* call that computes it.                                                  *)
add_fg_bg_measurements(objname, inp, binary_image) ==
    <<[object |-> "Image", feature |-> "Threshold_WeightedVariance_" \o objname,
       value |-> [fn |-> "weighted_variance", data |-> inp.image, mask |-> inp.mask,
                  binary_image |-> binary_image]],
      [object |-> "Image", feature |-> "Threshold_SumOfEntropies_" \o objname,
       value |-> [fn |-> "sum_of_entropies", data |-> inp.image, mask |-> inp.mask,
                  binary_image |-> binary_image]]>>

(* The workspace before run writes to it: its measurements, the images of  *)
(* its image set, and the writes made to it, in order.                     *)
EmptyWorkspace == [measurements |-> <<>>, images |-> <<>>, log |-> <<>>]

(* measurements.add_measurement, once for each measurement of the          *)
(* sequence added, in order.                                               *)
add_measurements(w, added) ==
    [w EXCEPT
        !.measurements = @ \o added,
        !.log = @ \o [i \in DOMAIN added |->
                         [op |-> "add_measurement", name |-> added[i].feature]]]

(* workspace.image_set.add(name, image).                                   *)
image_set_add(w, name, image) ==
    [w EXCEPT
        !.images = Append(@, [name |-> name] @@ image),
        !.log = Append(@, [op |-> "image_set.add", name |-> name])]

(* Image(binary_image, parent_image=input_image, dimensions=dimensions).   *)
Image(pixel_data, parent_image) ==
    [pixel_data |-> pixel_data, parent_image |-> parent_image]

(* As run_workspace, but the output image is added to the image set before *)
(* the measurements are written.                                           *)
run_workspace_image_first(s, inp, r) ==
    IF r.raised # "none"
    THEN EmptyWorkspace
    ELSE LET w1 == image_set_add(EmptyWorkspace, s.y_name, Image(r.binary_image, s.x_name))
             w2 == add_measurements(w1,
                       add_threshold_measurements(s, s.y_name, r.final_threshold,
                                                  r.orig_threshold, r.guide_threshold))
         IN  add_measurements(w2, add_fg_bg_measurements(s.y_name, inp, r.binary_image))

(* run(workspace) after get_threshold returned r: what the workspace holds *)
(* when run ends.  If get_threshold raised, run ends there.                *)
run_workspace(s, inp, r) ==
    IF r.raised # "none"
    THEN EmptyWorkspace
    ELSE LET w1 == add_measurements(EmptyWorkspace,
                       add_threshold_measurements(s, s.y_name, r.final_threshold,
                                                  r.orig_threshold, r.guide_threshold))
             w2 == add_measurements(w1,
                       add_fg_bg_measurements(s.y_name, inp, r.binary_image))
         IN  image_set_add(w2, s.y_name, Image(r.binary_image, s.x_name))

(* Names of cellprofiler_core.constants.measurement.                       *)
COLTYPE_FLOAT == "float"
C_THRESHOLD == "Threshold"
FTR_FINAL_THRESHOLD == "FinalThreshold"
FTR_ORIG_THRESHOLD == "OrigThreshold"
FTR_GUIDE_THRESHOLD == "GuideThreshold"
FTR_SUM_OF_ENTROPIES == "SumOfEntropies"
FTR_WEIGHTED_VARIANCE == "WeightedVariance"

(* As get_measurement_columns, but no column is declared for the guide     *)
(* threshold.                                                              *)
get_measurement_columns_without_guide(s, object_name) ==
    <<<<"Image", "Threshold_FinalThreshold_" \o object_name, COLTYPE_FLOAT>>,
      <<"Image", "Threshold_OrigThreshold_" \o object_name, COLTYPE_FLOAT>>,
      <<"Image", "Threshold_WeightedVariance_" \o object_name, COLTYPE_FLOAT>>,
      <<"Image", "Threshold_SumOfEntropies_" \o object_name, COLTYPE_FLOAT>>>>

(* get_measurement_columns(pipeline, object_name): the columns declared.   *)
get_measurement_columns(s, object_name) ==
    <<<<"Image", "Threshold_FinalThreshold_" \o object_name, COLTYPE_FLOAT>>,
      <<"Image", "Threshold_OrigThreshold_" \o object_name, COLTYPE_FLOAT>>>>
    \o (IF s.threshold_scope = TS_ADAPTIVE
        THEN <<<<"Image", "Threshold_GuideThreshold_" \o object_name, COLTYPE_FLOAT>>>>
        ELSE <<>>)
    \o <<<<"Image", "Threshold_WeightedVariance_" \o object_name, COLTYPE_FLOAT>>,
         <<"Image", "Threshold_SumOfEntropies_" \o object_name, COLTYPE_FLOAT>>>>

(* get_measurements(pipeline, object_name, category): the features listed. *)
get_measurements(s, object_name, category) ==
    IF object_name = "Image" /\ category = C_THRESHOLD
    THEN <<FTR_ORIG_THRESHOLD, FTR_FINAL_THRESHOLD>>
         \o (IF s.threshold_scope = TS_ADAPTIVE THEN <<FTR_GUIDE_THRESHOLD>> ELSE <<>>)
         \o <<FTR_SUM_OF_ENTROPIES, FTR_WEIGHTED_VARIANCE>>
    ELSE <<>>

----------------------------------------------------------------------------
(* As validate_module, but the method is read from global_operation under *)
(* either strategy.                                                        *)
validate_module_global_operation(s) ==
    IF /\ s.global_operation = TM_ROBUST_BACKGROUND
       /\ s.lower_outlier_fraction + s.upper_outlier_fraction >= One
    THEN [raised |-> "ValidationError", setting |-> "upper_outlier_fraction"]
    ELSE [raised |-> "none", setting |-> "none"]

(* validate_module: what it raises, and the setting the error names.       *)
validate_module(s) ==
    IF /\ threshold_operation(s) = TM_ROBUST_BACKGROUND
       /\ s.lower_outlier_fraction + s.upper_outlier_fraction >= One
    THEN [raised |-> "ValidationError", setting |-> "upper_outlier_fraction"]
    ELSE [raised |-> "none", setting |-> "none"]

----------------------------------------------------------------------------
(* The state machine.                                                      *)

NoInput == [image |-> <<>>, mask |-> <<>>, measurement |-> 0]
NotCalled == Raise("not called")
NotValidated == [raised |-> "not called", setting |-> "none"]
NotUpgraded == [called |-> FALSE]
NotConverted == [called |-> FALSE]
NotEstimated == [called |-> FALSE]

Init ==
    /\ settings = DefaultSettings
    /\ input = NoInput
    /\ calls = <<>>
    /\ ret = NotCalled
    /\ workspace = EmptyWorkspace
    /\ validation = NotValidated
    /\ upgrade = NotUpgraded
    /\ ijv_call = NotConverted
    /\ rb = NotEstimated

(* No operation's outcome is pending.                                      *)
Idle == ret = NotCalled /\ validation = NotValidated

(* The user gives one setting another value, while no run is under way.    *)
EditSetting ==
    \E n \in Editable :
        \E v \in SettingValues[n] :
            /\ Idle
            /\ v # settings[n]
            /\ Edited([settings EXCEPT ![n] = v]) <= MaxEdited
            /\ settings' = [settings EXCEPT ![n] = v]
            /\ input' = NoInput
            /\ calls' = <<>>
            /\ ret' = NotCalled
            /\ workspace' = EmptyWorkspace
            /\ validation' = NotValidated
            /\ UNCHANGED call_vars

(* The estimates the engine may draw from an image under settings s.       *)
Estimates(s) ==
    IF threshold_operation(s) \in {TM_MANUAL, TM_MEASUREMENT}
    THEN {[global |-> 0, local |-> <<>>, order |-> "none"]}
    ELSE IF s.threshold_scope = TS_GLOBAL
    THEN {[global |-> g, local |-> <<>>, order |-> "none"] : g \in RawLevels}
    ELSE {[global |-> g, local |-> l, order |-> o] :
              g \in RawLevels, l \in LocalSurfaces, o \in PostprocessingOrders}

(* The pipeline runs the module on one image set: run() calls              *)
(* get_threshold, writes the measurements and adds the output image.       *)
Run ==
    \E image \in Images, mask \in Masks :
        \E measurement \in (IF threshold_operation(settings) = TM_MEASUREMENT
                            THEN MeasValues ELSE {0}) :
            \E est \in Estimates(settings) :
                LET inp == [image |-> image, mask |-> mask, measurement |-> measurement]
                    got == get_threshold(settings, inp, est)
                IN  /\ Idle
                    /\ input' = inp
                    /\ calls' = got.calls
                    /\ ret' = got.ret
                    /\ workspace' = run_workspace(settings, inp, got.ret)
                    /\ UNCHANGED <<settings, validation>>
                    /\ UNCHANGED call_vars

(* The image set is done: the pipeline releases its workspace.             *)
EndRun ==
    /\ ret # NotCalled
    /\ input' = NoInput
    /\ calls' = <<>>
    /\ ret' = NotCalled
    /\ workspace' = EmptyWorkspace
    /\ UNCHANGED <<settings, validation>>
    /\ UNCHANGED call_vars

(* The outcome of the validation is dismissed.                             *)
EndValidation ==
    /\ validation # NotValidated
    /\ validation' = NotValidated
    /\ UNCHANGED <<settings, input, calls, ret, workspace>>
    /\ UNCHANGED call_vars

(* The pipeline validates the module, while no run is under way.           *)
ValidateModule ==
    /\ Idle
    /\ validation' = validate_module(settings)
    /\ UNCHANGED <<settings, input, calls, ret, workspace>>
    /\ UNCHANGED call_vars

Next == EditSetting \/ Run \/ EndRun \/ ValidateModule \/ EndValidation

Spec == Init /\ [][Next]_vars

----------------------------------------------------------------------------
(* The Robust Background estimator of the library, as the design           *)
(* specification describes it (section 4.2): the valid values are ranked,  *)
(* the lowest and the highest fractions are discarded, and the estimate is *)
(* center + number_of_deviations * spread over the retained values.        *)

(* Largest number of valid samples handed to the estimator.                *)
MaxSamples == 3

(* Intensities of the samples, outlier fractions (0.05 and 0.375) and      *)
(* numbers of deviations (-2, -0.5, 0, 1, 2) the model draws.              *)
SampleValues == {0, 20, 40, One}
OutlierFractions == {4, 30}
Deviations == {0 - 2 * One, 0 - 40, 0, One, 2 * One}
SampleSets == UNION {[1..n -> SampleValues] : n \in 0..MaxSamples}

(* The sequence seq without its element at index i.                        *)
remove(seq, i) == SubSeq(seq, 1, i - 1) \o SubSeq(seq, i + 1, Len(seq))

RECURSIVE sorted(_)
(* The values in increasing order (their intensity rank).                  *)
sorted(values) ==
    IF values = <<>>
    THEN <<>>
    ELSE LET i == CHOOSE k \in DOMAIN values :
                      \A j \in DOMAIN values : values[k] <= values[j]
         IN  <<values[i]>> \o sorted(remove(values, i))

(* The values left when the lowest lower_outlier_fraction and the highest  *)
(* upper_outlier_fraction of them, by rank, are discarded.                 *)
retained(values, lower_outlier_fraction, upper_outlier_fraction) ==
    LET ranked == sorted(values)
        low_chop == (Len(values) * lower_outlier_fraction) \div One
        high_chop == (Len(values) * upper_outlier_fraction) \div One
    IN  SubSeq(ranked, low_chop + 1, Len(values) - high_chop)

(* The largest integer whose square is at most x.                          *)
isqrt(x) == CHOOSE r \in 0..x : r * r <= x /\ (r + 1) * (r + 1) > x

(* The mean of the values of a sequence.                                   *)
robust_mean(im) == SumOver(im, DOMAIN im) \div Len(im)

(* The median of the values of a ranked sequence.                          *)
robust_median(im) ==
    IF Len(im) % 2 = 1
    THEN im[(Len(im) + 1) \div 2]
    ELSE (im[Len(im) \div 2] + im[Len(im) \div 2 + 1]) \div 2

(* The mode of the values of a ranked sequence: the histogram over their   *)
(* range has isqrt(Len(im)) bins, and the mode is the middle of the first  *)
(* bin of highest count.                                                   *)
robust_mode(im) ==
    LET bins == isqrt(Len(im))
        lo == im[1]
        hi == im[Len(im)]
        bin_of(v) == IF hi = lo THEN 1
                     ELSE Min(((v - lo) * bins) \div (hi - lo) + 1, bins)
        count(b) == Cardinality({k \in DOMAIN im : bin_of(im[k]) = b})
        best == CHOOSE b \in 1..bins :
                    /\ \A c \in 1..bins : count(c) <= count(b)
                    /\ \A c \in 1..(b - 1) : count(c) < count(b)
    IN  lo + ((2 * best - 1) * (hi - lo)) \div (2 * bins)

(* The standard deviation of the values of a sequence.                     *)
robust_sd(im) ==
    LET m == robust_mean(im)
    IN  isqrt(SumOver([k \in DOMAIN im |-> (im[k] - m) * (im[k] - m)], DOMAIN im)
                  \div Len(im))

(* The median absolute deviation of the values from their median.          *)
robust_mad(im) ==
    LET m == robust_median(im)
    IN  robust_median(sorted([k \in DOMAIN im |-> Max(im[k] - m, m - im[k])]))

(* As robust_background, but the deviations are taken off the center.      *)
robust_background_below(values, lower, upper, averaging_method, variance_method, number_of_deviations) ==
    LET im == retained(values, lower, upper)
        center == IF averaging_method = RB_MEAN THEN robust_mean(im)
                  ELSE IF averaging_method = RB_MEDIAN THEN robust_median(im)
                  ELSE robust_mode(im)
        spread == IF variance_method = RB_SD THEN robust_sd(im) ELSE robust_mad(im)
    IN  IF im = <<>>
        THEN [raised |-> "DomainError", threshold |-> 0]
        ELSE [raised |-> "none",
              threshold |-> center - (number_of_deviations * spread) \div One]

(* The Robust Background estimate of the values: a DomainError when no     *)
(* value is retained, center + number_of_deviations * spread otherwise.    *)
robust_background(values, lower, upper, averaging_method, variance_method, number_of_deviations) ==
    LET im == retained(values, lower, upper)
        center == IF averaging_method = RB_MEAN THEN robust_mean(im)
                  ELSE IF averaging_method = RB_MEDIAN THEN robust_median(im)
                  ELSE robust_mode(im)
        spread == IF variance_method = RB_SD THEN robust_sd(im) ELSE robust_mad(im)
    IN  IF im = <<>>
        THEN [raised |-> "DomainError", threshold |-> 0]
        ELSE [raised |-> "none",
              threshold |-> center + (number_of_deviations * spread) \div One]

(* The estimator is run on the valid samples of an image.                  *)
Estimate ==
    /\ ~rb.called
    /\ \E values \in SampleSets, lower \in OutlierFractions, upper \in OutlierFractions :
           \E averaging \in {RB_MEAN, RB_MEDIAN, RB_MODE}, variance \in {RB_SD, RB_MAD} :
               \E n \in Deviations :
                   rb' = [called |-> TRUE,
                          values |-> values,
                          lower_outlier_fraction |-> lower,
                          upper_outlier_fraction |-> upper,
                          averaging_method |-> averaging,
                          variance_method |-> variance,
                          number_of_deviations |-> n,
                          estimate |-> robust_background(values, lower, upper,
                                                         averaging, variance, n),
                          earlier |-> <<>>]
    /\ UNCHANGED <<module_vars, upgrade, ijv_call>>

(* The estimator is run again on the same samples with another number of   *)
(* deviations and every other parameter as before; the earlier number and  *)
(* estimate are kept for comparison.                                       *)
Reestimate ==
    /\ rb.called
    /\ rb.earlier = <<>>
    /\ \E n \in Deviations \ {rb.number_of_deviations} :
           rb' = [rb EXCEPT
                     !.number_of_deviations = n,
                     !.estimate = robust_background(rb.values, rb.lower_outlier_fraction,
                                                    rb.upper_outlier_fraction,
                                                    rb.averaging_method,
                                                    rb.variance_method, n),
                     !.earlier = <<[number_of_deviations |-> rb.number_of_deviations,
                                    estimate |-> rb.estimate]>>]
    /\ UNCHANGED <<module_vars, upgrade, ijv_call>>

(* The estimates are dropped.                                              *)
EndEstimate ==
    /\ rb.called
    /\ rb' = NotEstimated
    /\ UNCHANGED <<module_vars, upgrade, ijv_call>>

RobustBackgroundNext == Estimate \/ Reestimate \/ EndEstimate

RobustBackgroundSpec == Init /\ [][RobustBackgroundNext]_vars

----------------------------------------------------------------------------
(* Threshold.upgrade_settings and Threshold.upgrade_threshold_settings.    *)
(* A setting list is a sequence; the code's index k is the sequence's      *)
(* index k + 1.                                                            *)

(* Names of the centrosome.threshold methods the upgrade refers to.        *)
CENTROSOME_TM_OTSU == "Otsu"
CENTROSOME_TM_MCT == "MCT"
CENTROSOME_TM_ROBUST_BACKGROUND == "RobustBackground"
CENTROSOME_TM_BACKGROUND == "Background"
CENTROSOME_TM_KAPUR == "Kapur"
CENTROSOME_TM_MOG == "MoG"
CENTROSOME_TM_RIDLER_CALVARD == "RidlerCalvard"

(* The module's revision of its settings.                                  *)
variable_revision_number == 12

(* list[k].                                                                *)
Item(list, k) == list[k + 1]
(* list[a:b] and list[a:].                                                 *)
Slice(list, a, b) == SubSeq(list, a + 1, Min(b, Len(list)))
SliceFrom(list, a) == SubSeq(list, a + 1, Len(list))
(* The list after list[k] = updates[k] for every k of updates.             *)
SetItems(list, updates) ==
    [i \in DOMAIN list |-> IF (i - 1) \in DOMAIN updates THEN updates[i - 1] ELSE list[i]]
(* The list after list.insert(k, value).                                   *)
Insert(list, k, value) ==
    SubSeq(list, 1, Min(k, Len(list))) \o <<value>> \o SubSeq(list, Min(k, Len(list)) + 1, Len(list))

(* The value of a decimal digit.                                           *)
DigitValue == ("0" :> 0) @@ ("1" :> 1) @@ ("2" :> 2) @@ ("3" :> 3) @@ ("4" :> 4)
              @@ ("5" :> 5) @@ ("6" :> 6) @@ ("7" :> 7) @@ ("8" :> 8) @@ ("9" :> 9)

RECURSIVE int(_)
(* int(str) for a string of decimal digits.                                *)
int(str) ==
    IF str = ""
    THEN 0
    ELSE 10 * int(SubSeq(str, 1, Len(str) - 1)) + DigitValue[SubSeq(str, Len(str), Len(str))]

RECURSIVE Pow10(_)
Pow10(n) == IF n = 0 THEN 1 ELSE 10 * Pow10(n - 1)

(* Index of the decimal point of str, 0 when it has none.                  *)
PointAt(str) ==
    IF \E i \in 1..Len(str) : SubSeq(str, i, i) = "."
    THEN CHOOSE i \in 1..Len(str) : SubSeq(str, i, i) = "."
    ELSE 0

(* float(str) in fixed point, for a decimal string such as "1" or "0.5".   *)
float(str) ==
    IF PointAt(str) = 0
    THEN int(str) * One
    ELSE LET fraction == SubSeq(str, PointAt(str) + 1, Len(str))
         IN  int(SubSeq(str, 1, PointAt(str) - 1)) * One
                 + (int(fraction) * One) \div Pow10(Len(fraction))

RECURSIVE str_int(_)
(* str(n) for an int n >= 0.                                               *)
str_int(n) ==
    LET digit == CHOOSE d \in DOMAIN DigitValue : DigitValue[d] = n % 10
    IN  IF n < 10 THEN digit ELSE str_int(n \div 10) \o digit

(* str(x) for a float x >= 0 with at most two decimals: the integer part,  *)
(* the point and the decimals, "0" when there are none.                    *)
str_float(x) ==
    LET hundredths == ((x % One) * 100) \div One
    IN  str_int(x \div One) \o "."
            \o (IF hundredths % 10 = 0
                THEN str_int(hundredths \div 10)
                ELSE str_int(hundredths \div 10) \o str_int(hundredths % 10))

(* upgrade_threshold_settings, version 1: the robust background settings   *)
(* are appended (two floats and an int among them).                        *)
upgrade_threshold_version_1(setting_values) ==
    setting_values \o <<"Default", 4, 4, RB_MEAN, RB_SD, 2>>

(* The correction factor of a Background threshold, doubled.               *)
doubled_correction_factor(text) ==
    IF float(text) = 0
    THEN str_int(2)
    ELSE str_float(float(text) * 2)

(* upgrade_threshold_settings, version 2, statement by statement: each    *)
(* operator is the list after one if statement (lines 1107-1156).          *)
version_2_scope(s) ==
    IF Item(s, 1) \in {"Binary image", "Per object"}
    THEN SetItems(s, 1 :> "None")
    ELSE s

version_2_automatic(s) ==
    IF Item(s, 1) = "Automatic"
    THEN SetItems(s, (1 :> TS_GLOBAL) @@ (2 :> CENTROSOME_TM_MCT) @@ (3 :> "Manual")
                     @@ (4 :> "1.3488") @@ (5 :> "1") @@ (6 :> "(0.0, 1.0)"))
    ELSE s

version_2_removed_methods(s) ==
    IF Item(s, 2) \in {CENTROSOME_TM_KAPUR, CENTROSOME_TM_MOG, CENTROSOME_TM_RIDLER_CALVARD}
    THEN SetItems(s, 2 :> "None")
    ELSE s

version_2_background(s) ==
    IF Item(s, 2) = CENTROSOME_TM_BACKGROUND
    THEN SetItems(s, (2 :> CENTROSOME_TM_ROBUST_BACKGROUND) @@ (17 :> "Custom")
                     @@ (18 :> "0.02") @@ (19 :> "0.02") @@ (20 :> RB_MODE)
                     @@ (21 :> RB_SD) @@ (22 :> "0")
                     @@ (5 :> doubled_correction_factor(Item(s, 5))))
    ELSE s

version_2_no_smoothing(s) ==
    IF Item(s, 3) = "No smoothing" THEN SetItems(s, 4 :> "0") ELSE s

version_2_automatic_smoothing(s) ==
    IF Item(s, 3) = "Automatic" THEN SetItems(s, 4 :> "1.3488") ELSE s

version_2_default_robust_background(s) ==
    IF Item(s, 17) = "Default"
    THEN SetItems(s, (18 :> "0.05") @@ (19 :> "0.05") @@ (20 :> RB_MEAN)
                     @@ (21 :> RB_SD) @@ (22 :> "2"))
    ELSE s

(* new_setting_values (lines 1158-1164).                                   *)
new_setting_values(s) ==
    Slice(s, 0, 3) \o Slice(s, 4, 7) \o Slice(s, 8, 10) \o Slice(s, 12, 13)
        \o Slice(s, 14, 15) \o Slice(s, 16, 17) \o SliceFrom(s, 18)

(* upgrade_threshold_settings, version 2.                                  *)
upgrade_threshold_version_2(setting_values) ==
    new_setting_values(
        version_2_default_robust_background(
            version_2_automatic_smoothing(
                version_2_no_smoothing(
                    version_2_background(
                        version_2_removed_methods(
                            version_2_automatic(
                                version_2_scope(setting_values))))))))

(* upgrade_threshold_settings(setting_values).                             *)
upgrade_threshold_settings(setting_values) ==
    IF int(Item(setting_values, 0)) = 1
    THEN upgrade_threshold_version_2(upgrade_threshold_version_1(setting_values))
    ELSE IF int(Item(setting_values, 0)) = 2
    THEN upgrade_threshold_version_2(setting_values)
    ELSE setting_values

(* Revision 7 to 8 (lines 1034-1041).                                      *)
upgrade_7(setting_values) ==
    LET kept == Slice(setting_values, 0, 2) \o SliceFrom(setting_values, 6)
    IN  Slice(kept, 0, 2) \o upgrade_threshold_settings(SliceFrom(kept, 2))

(* Revision 8 to 9 (lines 1043-1046).                                      *)
upgrade_8(setting_values) ==
    Slice(setting_values, 0, 2) \o SliceFrom(setting_values, 3)

(* Revision 9 to 10 (lines 1048-1067), statement by statement.             *)
(* As revision_9_manual_or_measurement, but the strategy is left as it is. *)
revision_9_keeping_strategy(s) ==
    IF Item(s, 2) \in {TM_MANUAL, TM_MEASUREMENT}
    THEN SetItems(s, 3 :> Item(s, 2))
    ELSE s

revision_9_manual_or_measurement(s) ==
    IF Item(s, 2) \in {TM_MANUAL, TM_MEASUREMENT}
    THEN SetItems(s, (3 :> Item(s, 2)) @@ (2 :> TS_GLOBAL))
    ELSE s

revision_9_adaptive_to_global(s) ==
    IF /\ Item(s, 2) = TS_ADAPTIVE
       /\ Item(s, 3) \in {CENTROSOME_TM_MCT, CENTROSOME_TM_ROBUST_BACKGROUND}
    THEN SetItems(s, 2 :> TS_GLOBAL)
    ELSE s

revision_9_li(s) ==
    IF Item(s, 3) = CENTROSOME_TM_MCT THEN SetItems(s, 3 :> TM_LI) ELSE s

revision_9_local_operation(s) ==
    IF Item(s, 2) = TS_ADAPTIVE
    THEN s \o <<Item(s, 3)>>
    ELSE s \o <<CENTROSOME_TM_OTSU>>

upgrade_9(setting_values) ==
    revision_9_local_operation(
        revision_9_li(
            revision_9_adaptive_to_global(
                revision_9_manual_or_measurement(setting_values))))

(* Revision 10 to 11 (lines 1069-1079): the method names relabelled, and   *)
(* used_log_otsu as computed from the relabelled list.                     *)
relabel_method_names(s) ==
    IF Item(s, 3) = "RobustBackground"
    THEN SetItems(s, 3 :> TM_ROBUST_BACKGROUND)
    ELSE IF Item(s, 3) = "Minimum cross entropy"
    THEN SetItems(s, 3 :> TM_LI)
    ELSE s

used_log_otsu(s) ==
    /\ \/ Item(s, 2) = TS_GLOBAL /\ Item(s, 3) = TM_OTSU
       \/ Item(s, 2) = TS_ADAPTIVE /\ s[Len(s)] = TM_OTSU
    /\ Item(s, 9) = O_THREE_CLASS

upgrade_10(setting_values) == relabel_method_names(setting_values)

(* Revision 11 to 12 (lines 1080-1082).                                    *)
upgrade_11(setting_values, log_otsu) ==
    Insert(setting_values, 10, log_otsu)

(* Saved settings of revisions 9 to 12: the image names, the strategy, the *)
(* method and the two-class choice vary, the other settings hold the text  *)
(* of their defaults.                                                      *)
Saved9(scope, method, two_class) ==
    <<"DNA", "Threshold", scope, method, "0", "1", "0.0,1.0", "0.0", "None", two_class,
      "Foreground", "50", "0.05", "0.05", RB_MEAN, RB_SD, "2">>
Saved10(scope, method, two_class, local) == Saved9(scope, method, two_class) \o <<local>>
Saved12(scope, method, two_class, local, log_transform) ==
    Insert(Saved10(scope, method, two_class, local), 10, log_transform)
(* Saved settings of revision 8: revision 9 with the version of the        *)
(* threshold settings at index 2.                                          *)
Saved8(scope, method, two_class) == Insert(Saved9(scope, method, two_class), 2, "2")
(* Saved settings of revision 7: the image names, four settings the        *)
(* upgrade drops, and the threshold settings of version 1 (17 values) or   *)
(* version 2 (23 values).                                                  *)
Saved7(version, scope, method, smoothing, factor, two_class, custom) ==
    <<"DNA", "Threshold", "a2", "a3", "a4", "a5">>
    \o <<version, scope, method, smoothing, "1", factor, "0.0,1.0", "a7", "0.0", "None",
         "a10", "a11", two_class, "a13", "Foreground", "a15", "50">>
    \o (IF version = "2" THEN <<custom, "0.1", "0.1", RB_MEDIAN, RB_MAD, "3">> ELSE <<>>)
(* Saved settings of a revision below 7.                                   *)
SavedOld(scope, method) == <<"DNA", "Threshold", scope, method>>

TwoClassChoices == {O_TWO_CLASS, O_THREE_CLASS}

(* The setting lists upgrade_settings is called with, by revision.  The    *)
(* code takes any list: a list of revision 10 ends with an adaptive method *)
(* of "Otsu" (appended by line 1066), of the method at index 3 (appended   *)
(* by line 1064, "None" included) or of a legacy name.                     *)
SavedSettings(revision) ==
    IF revision < 7
    THEN {SavedOld(scope, method) :
              scope \in {TS_GLOBAL, TS_ADAPTIVE}, method \in {"Otsu", "MCT"}}
    ELSE IF revision = 7
    THEN {Saved7(version, scope, method, smoothing, factor, two_class, custom) :
              version \in {"1", "2"},
              scope \in {TS_GLOBAL, TS_ADAPTIVE, "Automatic", "Binary image", TM_MANUAL},
              method \in {"Otsu", "MCT", "Background", "Kapur"},
              smoothing \in {"No smoothing", "Automatic", "Manual"},
              factor \in {"0", "1", "0.5"},
              two_class \in TwoClassChoices,
              custom \in {"Default", "Custom"}}
    ELSE IF revision = 8
    THEN {Saved8(scope, method, two_class) :
              scope \in {TS_GLOBAL, TS_ADAPTIVE, TM_MANUAL, TM_MEASUREMENT},
              method \in {"Otsu", "MCT", "RobustBackground", "None"},
              two_class \in TwoClassChoices}
    ELSE IF revision = 9
    THEN {Saved9(scope, method, two_class) :
              scope \in {TS_GLOBAL, TS_ADAPTIVE, TM_MANUAL, TM_MEASUREMENT},
              method \in {"Otsu", "MCT", "RobustBackground", "None",
                          "Minimum cross entropy"},
              two_class \in TwoClassChoices}
    ELSE IF revision = 10
    THEN {Saved10(scope, method, two_class, local) :
              scope \in {TS_GLOBAL, TS_ADAPTIVE},
              method \in {"Minimum cross entropy", "Otsu", "RobustBackground",
                          TM_MEASUREMENT, TM_MANUAL, "None"},
              two_class \in TwoClassChoices,
              local \in {CENTROSOME_TM_OTSU, "None", "Minimum cross entropy",
                         "RobustBackground"}}
    ELSE IF revision = 11
    THEN {Saved10(scope, method, two_class, local) :
              scope \in {TS_GLOBAL, TS_ADAPTIVE},
              method \in GlobalOperations,
              two_class \in TwoClassChoices,
              local \in LocalOperations}
    ELSE {Saved12(scope, method, two_class, local, log_transform) :
              scope \in {TS_GLOBAL, TS_ADAPTIVE},
              method \in GlobalOperations,
              two_class \in TwoClassChoices,
              local \in LocalOperations,
              log_transform \in {"Yes", "No"}}

(* upgrade_7 of every saved list of revision 7, computed once.            *)
upgraded_7 == [setting_values \in SavedSettings(7) |-> upgrade_7(setting_values)]

(* As unsupported_revision, but revision 6 is taken as supported.          *)
unsupported_revision_below_six(revision) == revision < 6

(* The revisions upgrade_settings refuses (line 1029).                     *)
unsupported_revision(revision) == revision < 7

(* The if statements of upgrade_settings, one operator each: r holds       *)
(* setting_values, variable_revision_number and used_log_otsu as the       *)
(* statement finds them, and the steps applied so far.                     *)
if_revision_7(r) ==
    IF r.variable_revision_number = 7
    THEN [r EXCEPT !.setting_values = IF @ \in DOMAIN upgraded_7
                                      THEN upgraded_7[@]
                                      ELSE upgrade_7(@),
                   !.variable_revision_number = 8,
                   !.steps = Append(@, 7)]
    ELSE r

if_revision_8(r) ==
    IF r.variable_revision_number = 8
    THEN [r EXCEPT !.setting_values = upgrade_8(@), !.variable_revision_number = 9,
                   !.steps = Append(@, 8)]
    ELSE r

if_revision_9(r) ==
    IF r.variable_revision_number = 9
    THEN [r EXCEPT !.setting_values = upgrade_9(@), !.variable_revision_number = 10,
                   !.steps = Append(@, 9)]
    ELSE r

(* As if_revision_10, but the revision number is left at 10.               *)
if_revision_10_keeping_revision(r) ==
    IF r.variable_revision_number = 10
    THEN [r EXCEPT !.setting_values = upgrade_10(@),
                   !.used_log_otsu = used_log_otsu(upgrade_10(r.setting_values)),
                   !.steps = Append(@, 10)]
    ELSE r

if_revision_10(r) ==
    IF r.variable_revision_number = 10
    THEN [r EXCEPT !.setting_values = upgrade_10(@), !.variable_revision_number = 11,
                   !.used_log_otsu = used_log_otsu(upgrade_10(r.setting_values)),
                   !.steps = Append(@, 10)]
    ELSE r

if_revision_11(r) ==
    IF r.variable_revision_number = 11
    THEN [r EXCEPT !.setting_values = upgrade_11(@, r.used_log_otsu),
                   !.variable_revision_number = 12, !.steps = Append(@, 11)]
    ELSE r

(* upgrade_settings(setting_values, variable_revision_number,              *)
(* module_name): what it raises or returns, and the steps it applied.      *)
upgrade_settings(setting_values, revision) ==
    IF unsupported_revision(revision)
    THEN [raised |-> "NotImplementedError", setting_values |-> <<>>,
          variable_revision_number |-> 0, used_log_otsu |-> FALSE, steps |-> <<>>]
    ELSE if_revision_11(
             if_revision_10(
                 if_revision_9(
                     if_revision_8(
                         if_revision_7(
                             [raised |-> "none", setting_values |-> setting_values,
                              variable_revision_number |-> revision,
                              used_log_otsu |-> FALSE, steps |-> <<>>])))))

(* The pipeline loader upgrades the saved settings of the module.          *)
UpgradeSettings ==
    /\ ~upgrade.called
    /\ \E revision \in 1..variable_revision_number :
           \E setting_values \in SavedSettings(revision) :
               upgrade' = [called |-> TRUE,
                           setting_values |-> setting_values,
                           variable_revision_number |-> revision,
                           result |-> upgrade_settings(setting_values, revision)]
    /\ UNCHANGED <<module_vars, ijv_call, rb>>

(* The loader is done with the upgraded settings.                          *)
EndUpgrade ==
    /\ upgrade.called
    /\ upgrade' = NotUpgraded
    /\ UNCHANGED <<module_vars, ijv_call, rb>>

UpgradeNext == UpgradeSettings \/ EndUpgrade

UpgradeSpec == Init /\ [][UpgradeNext]_vars

----------------------------------------------------------------------------
(* upgrade_settings statement by statement.  upgrade.pc is the source line *)
(* of the statement the call executes next, "returned" after the return    *)
(* statement and "raised" after the raise; upgrade.result holds the local  *)
(* variables as the statements leave them.                                 *)

(* The local variables on entry.                                           *)
entered(setting_values, revision) ==
    [raised |-> "none", setting_values |-> setting_values,
     variable_revision_number |-> revision, used_log_otsu |-> FALSE, steps |-> <<>>]

(* The call is at the statement of the given line.                         *)
at(line) == upgrade.called /\ upgrade.pc = line

(* The pipeline loader calls upgrade_settings.                             *)
CallUpgradeSettings ==
    /\ ~upgrade.called
    /\ \E revision \in 1..variable_revision_number :
           \E setting_values \in SavedSettings(revision) :
               upgrade' = [called |-> TRUE,
                           setting_values |-> setting_values,
                           variable_revision_number |-> revision,
                           pc |-> "1029",
                           result |-> entered(setting_values, revision)]
    /\ UNCHANGED <<module_vars, ijv_call, rb>>

(* Line 1029: revisions below 7 raise.                                     *)
IfUnsupported ==
    /\ at("1029")
    /\ upgrade' =
           IF unsupported_revision(upgrade.result.variable_revision_number)
           THEN [upgrade EXCEPT !.pc = "raised",
                                !.result = upgrade_settings(upgrade.setting_values,
                                               upgrade.variable_revision_number)]
           ELSE [upgrade EXCEPT !.pc = "1034"]
    /\ UNCHANGED <<module_vars, ijv_call, rb>>

(* Line 1034: if variable_revision_number == 7.                            *)
IfRevision7 ==
    /\ at("1034")
    /\ upgrade' = [upgrade EXCEPT !.result = if_revision_7(@), !.pc = "1043"]
    /\ UNCHANGED <<module_vars, ijv_call, rb>>

(* Line 1043: if variable_revision_number == 8.                            *)
IfRevision8 ==
    /\ at("1043")
    /\ upgrade' = [upgrade EXCEPT !.result = if_revision_8(@), !.pc = "1048"]
    /\ UNCHANGED <<module_vars, ijv_call, rb>>

(* Line 1048: if variable_revision_number == 9.                            *)
IfRevision9 ==
    /\ at("1048")
    /\ upgrade' = [upgrade EXCEPT !.result = if_revision_9(@), !.pc = "1068"]
    /\ UNCHANGED <<module_vars, ijv_call, rb>>

(* Lines 1068-1069: used_log_otsu = False, and                             *)
(* if variable_revision_number == 10.                                      *)
IfRevision10 ==
    /\ at("1068")
    /\ upgrade' = [upgrade EXCEPT !.result = if_revision_10(@), !.pc = "1080"]
    /\ UNCHANGED <<module_vars, ijv_call, rb>>

(* Line 1080: if variable_revision_number == 11.                           *)
IfRevision11 ==
    /\ at("1080")
    /\ upgrade' = [upgrade EXCEPT !.result = if_revision_11(@), !.pc = "1083"]
    /\ UNCHANGED <<module_vars, ijv_call, rb>>

(* Line 1083: the return statement.                                        *)
Return ==
    /\ at("1083")
    /\ upgrade' = [upgrade EXCEPT !.pc = "returned"]
    /\ UNCHANGED <<module_vars, ijv_call, rb>>

(* The loader is done with the outcome of the call.                        *)
LeaveUpgradeSettings ==
    /\ upgrade.called
    /\ upgrade.pc \in {"returned", "raised"}
    /\ upgrade' = NotUpgraded
    /\ UNCHANGED <<module_vars, ijv_call, rb>>

(* The statements of a call under way: the interpreter executes the next   *)
(* one as long as there is one.                                            *)
UpgradeStatement ==
    \/ IfUnsupported
    \/ IfRevision7
    \/ IfRevision8
    \/ IfRevision9
    \/ IfRevision10
    \/ IfRevision11
    \/ Return

UpgradeStepNext == CallUpgradeSettings \/ UpgradeStatement \/ LeaveUpgradeSettings

UpgradeStepSpec == Init /\ [][UpgradeStepNext]_vars /\ WF_vars(UpgradeStatement)

----------------------------------------------------------------------------
(* create_ijv of cellprofiler/library/utils/utils.py.  A dense label       *)
(* matrix is a sequence of rows; the code's dense[i, j] is the matrix's    *)
(* dense[i + 1][j + 1].                                                    *)

(* Largest numbers of rows and of columns of a label matrix.               *)
MaxRows == 2
MaxCols == 2
(* The labels of a matrix; 0 is the background.                            *)
Labels == 0..3
DenseMatrices ==
    UNION {[1..rows -> [1..cols -> Labels]] : rows \in 1..MaxRows, cols \in 1..MaxCols}

(* dense.shape.                                                            *)
shape(dense) == <<Len(dense), Len(dense[1])>>

RECURSIVE scan_row_keeping_background(_, _, _, _)
(* As scan_row, but the background is not skipped.                         *)
scan_row_keeping_background(dense, i, j, ijv) ==
    IF j >= shape(dense)[2]
    THEN ijv
    ELSE LET value == dense[i + 1][j + 1]
         IN  scan_row_keeping_background(dense, i, j + 1, Append(ijv, <<j, i, value>>))

RECURSIVE scan_row(_, _, _, _)
(* The inner loop from column j on: the list after row i is scanned.       *)
scan_row(dense, i, j, ijv) ==
    IF j >= shape(dense)[2]
    THEN ijv
    ELSE LET value == dense[i + 1][j + 1]
         IN  scan_row(dense, i, j + 1,
                      IF value # 0 THEN Append(ijv, <<j, i, value>>) ELSE ijv)

RECURSIVE scan_rows(_, _, _)
(* The outer loop from row i on.                                           *)
scan_rows(dense, i, ijv) ==
    IF i >= shape(dense)[1]
    THEN ijv
    ELSE scan_rows(dense, i + 1, scan_row(dense, i, 0, ijv))

(* create_ijv(dense): the rows of the array returned.                      *)
create_ijv(dense) == scan_rows(dense, 0, <<>>)

(* create_ijv is called on a label matrix; the matrix is only read.        *)
CreateIjv ==
    /\ ~ijv_call.called
    /\ \E dense \in DenseMatrices :
           ijv_call' = [called |-> TRUE,
                   given |-> dense,
                   dense |-> dense,
                   result |-> create_ijv(dense)]
    /\ UNCHANGED <<module_vars, upgrade, rb>>

(* The caller is done with the rows.                                       *)
EndIjv ==
    /\ ijv_call.called
    /\ ijv_call' = NotConverted
    /\ UNCHANGED <<module_vars, upgrade, rb>>

IjvNext == CreateIjv \/ EndIjv

IjvSpec == Init /\ [][IjvNext]_vars

----------------------------------------------------------------------------
(* Properties.                                                             *)

(* get_threshold returned (it did not raise).                              *)
Returned == ret.raised = "none"

(* The smoothed intensity of pixel p of the input image is at least t.     *)
SmoothedAtLeast(p, t) ==
    LET working == smooth(input.image, input.mask, settings.threshold_smoothing_scale)
    IN  working[p].num >= t * working[p].den

(* C1: whatever the strategy, the method and the mask, the binary image is *)
(* boolean at every pixel of the input image, background at every masked   *)
(* pixel, and foreground only at a valid pixel whose smoothed intensity is *)
(* at least the final threshold at that pixel.                             *)
C1_BinaryRespectsMask ==
    Returned =>
        /\ DOMAIN ret.binary_image = DOMAIN input.image
        /\ \A p \in DOMAIN ret.binary_image :
              /\ ret.binary_image[p] \in BOOLEAN
              /\ ~input.mask[p] => ~ret.binary_image[p]
              /\ ret.binary_image[p] =>
                    /\ input.mask[p]
                    /\ SmoothedAtLeast(p, At(ret.final_threshold, p))

(* A run under the Adaptive strategy with smoothing where a masked pixel   *)
(* is bright enough to be foreground and is background, next to a          *)
(* foreground pixel.                                                       *)
C1_Witness ==
    /\ Returned
    /\ settings.threshold_scope = TS_ADAPTIVE
    /\ settings.threshold_smoothing_scale > 0
    /\ \E p, q \in DOMAIN ret.binary_image :
          /\ ~input.mask[p]
          /\ SmoothedAtLeast(p, At(ret.final_threshold, p))
          /\ ~ret.binary_image[p]
          /\ ret.binary_image[q]

(* C2: under the Global strategy and any method but Manual, the final      *)
(* threshold is one scalar with min_bound <= final_threshold <= max_bound. *)
C2_GlobalFinalWithinRange ==
    (Returned /\ settings.threshold_scope = TS_GLOBAL
              /\ threshold_operation(settings) # TM_MANUAL) =>
        /\ ret.final_threshold.kind = "scalar"
        /\ settings.threshold_range.min <= ret.final_threshold.val
        /\ ret.final_threshold.val <= settings.threshold_range.max

(* Every element of the final threshold lies within the threshold range,   *)
(* and within the bounds the guide threshold sets.                         *)
FinalWithinRange ==
    \A p \in DOMAIN ret.final_threshold.val :
        /\ settings.threshold_range.min <= ret.final_threshold.val[p]
        /\ ret.final_threshold.val[p] <= settings.threshold_range.max
FinalWithinGuide ==
    \A p \in DOMAIN ret.final_threshold.val :
        /\ 7 * ret.guide_threshold.val <= 10 * ret.final_threshold.val[p]
        /\ 10 * ret.final_threshold.val[p] <= 15 * ret.guide_threshold.val

(* [0.7 * guide, 1.5 * guide] and [min_bound, max_bound] have a value in   *)
(* common.                                                                 *)
GuideMeetsRange ==
    /\ 7 * ret.guide_threshold.val <= 10 * settings.threshold_range.max
    /\ 10 * settings.threshold_range.min <= 15 * ret.guide_threshold.val

(* C3 as claimed: under the Adaptive strategy every element of the final   *)
(* threshold lies within [0.7 * guide, 1.5 * guide] and within [min_bound, *)
(* max_bound], whatever the correction factor and the range.               *)
C3_AdaptiveWithinGuideAndRange ==
    (Returned /\ settings.threshold_scope = TS_ADAPTIVE) =>
        /\ ret.final_threshold.kind = "array"
        /\ DOMAIN ret.final_threshold.val = DOMAIN input.image
        /\ FinalWithinGuide
        /\ FinalWithinRange

(* C3 as amended: under the Adaptive strategy the final threshold is an    *)
(* array congruent to the image whose elements all lie within [min_bound,  *)
(* max_bound] or all lie within [0.7 * guide, 1.5 * guide]; when the       *)
(* correction factor is 1 and the two intervals have a value in common,    *)
(* every element lies within both.                                         *)
C3_AdaptiveWithinGuideAndRangeWhereTheyMeet ==
    (Returned /\ settings.threshold_scope = TS_ADAPTIVE) =>
        /\ ret.final_threshold.kind = "array"
        /\ DOMAIN ret.final_threshold.val = DOMAIN input.image
        /\ FinalWithinRange \/ FinalWithinGuide
        /\ (settings.threshold_correction_factor = One /\ GuideMeetsRange) =>
               FinalWithinGuide /\ FinalWithinRange

(* An Adaptive run with correction factor 1 and the range [0.25, 0.75],    *)
(* where the guide's bounds and the range each changed a local estimate:   *)
(* the final threshold holds the lower bound the guide sets at one pixel   *)
(* and the upper bound of the range at another.                            *)
C3_Witness ==
    /\ Returned
    /\ settings.threshold_scope = TS_ADAPTIVE
    /\ settings.threshold_correction_factor = One
    /\ settings.threshold_range = [min |-> 20, max |-> 60]
    /\ ret.guide_threshold.val = 60
    /\ \E p, q \in DOMAIN ret.final_threshold.val :
          /\ ret.final_threshold.val[p] = GuideLow(60)
          /\ ret.final_threshold.val[q] = 60

(* C4: with method Manual the final and the original threshold are both    *)
(* the manual value as entered, whatever the correction factor and the     *)
(* threshold range are.                                                    *)
C4_ManualAsEntered ==
    (Returned /\ threshold_operation(settings) = TM_MANUAL) =>
        /\ ret.final_threshold = Scalar(settings.manual_threshold)
        /\ ret.orig_threshold = Scalar(settings.manual_threshold)

(* A Manual run with the manual value 0.5 and the correction factor 2,     *)
(* which would have made it 1.                                             *)
C4_Witness ==
    /\ Returned
    /\ threshold_operation(settings) = TM_MANUAL
    /\ settings.manual_threshold = 40
    /\ settings.threshold_correction_factor = 2 * One
    /\ Mul(settings.manual_threshold, settings.threshold_correction_factor)
           # settings.manual_threshold
    /\ ret.final_threshold = Scalar(40)

(* C5: with method Measurement the original threshold is the measurement   *)
(* and the final threshold is the measurement times the correction factor, *)
(* clamped into [min_bound, max_bound] (the larger of it and min_bound,    *)
(* then the smaller of that and max_bound); the image is binarized with    *)
(* the final threshold.                                                    *)
C5_MeasurementCorrected ==
    (Returned /\ threshold_operation(settings) = TM_MEASUREMENT) =>
        LET scaled == (input.measurement * settings.threshold_correction_factor) \div One
            raised == IF scaled < settings.threshold_range.min
                      THEN settings.threshold_range.min ELSE scaled
            final == IF raised > settings.threshold_range.max
                     THEN settings.threshold_range.max ELSE raised
        IN  /\ ret.orig_threshold = Scalar(input.measurement)
            /\ ret.final_threshold = Scalar(final)
            /\ \A p \in DOMAIN input.image :
                  ret.binary_image[p] <=> (input.mask[p] /\ SmoothedAtLeast(p, final))

(* A Measurement run whose final threshold is not the original one, with a *)
(* valid pixel that the original threshold would have classified the       *)
(* other way.                                                              *)
C5_Witness ==
    /\ Returned
    /\ threshold_operation(settings) = TM_MEASUREMENT
    /\ ret.final_threshold.val # ret.orig_threshold.val
    /\ \E p \in DOMAIN input.image :
          /\ input.mask[p]
          /\ ret.binary_image[p] # SmoothedAtLeast(p, ret.orig_threshold.val)

(* C6: for the Manual and Measurement methods get_threshold makes one      *)
(* library call, of apply_threshold and not of threshold, with the final   *)
(* threshold, the input image's mask and the smoothing scale, and returns  *)
(* that call's binary image and sigma.                                     *)
C6_BypassesEngine ==
    (ret # NotCalled /\ threshold_operation(settings) \in {TM_MANUAL, TM_MEASUREMENT}) =>
        /\ Len(calls) = 1
        /\ calls[1].fn = "apply_threshold"
        /\ calls[1].threshold = ret.final_threshold
        /\ calls[1].mask = input.mask
        /\ calls[1].smoothing = settings.threshold_smoothing_scale
        /\ LET applied == apply_threshold(input.image, ret.final_threshold, input.mask,
                                          settings.threshold_smoothing_scale)
           IN  /\ Returned
               /\ ret.binary_image = applied.binary
               /\ ret.sigma = applied.sigma

(* A Measurement run with smoothing on an image with a masked pixel.       *)
C6_Witness ==
    /\ Returned
    /\ threshold_operation(settings) = TM_MEASUREMENT
    /\ settings.threshold_smoothing_scale > 0
    /\ ret.sigma.num > 0
    /\ \E p, q \in DOMAIN input.image : ~input.mask[p] /\ ret.binary_image[q]

(* The image measurements of the workspace that are a guide threshold.     *)
GuideMeasurements ==
    {i \in DOMAIN workspace.measurements :
        workspace.measurements[i].feature = "Threshold_GuideThreshold_" \o settings.y_name}

(* C7: under the Global strategy get_threshold returns no guide threshold  *)
(* (None), whatever the method, and run records no guide-threshold         *)
(* measurement; a guide threshold exists only under the Adaptive strategy. *)
C7_GuideOnlyAdaptive ==
    /\ settings.threshold_scope = TS_GLOBAL =>
          /\ ret.guide_threshold.kind = "None"
          /\ GuideMeasurements = {}
    /\ (ret.guide_threshold.kind # "None" \/ GuideMeasurements # {}) =>
          settings.threshold_scope = TS_ADAPTIVE

(* A completed run under the Global strategy that called the engine and    *)
(* wrote its measurements.                                                 *)
C7_Witness ==
    /\ Returned
    /\ settings.threshold_scope = TS_GLOBAL
    /\ Len(calls) = 1
    /\ calls[1].fn = "threshold"
    /\ Len(workspace.measurements) > 0

(* The input image holds only the intensities 0 and 1.                     *)
BinaryInput == \A p \in DOMAIN input.image : input.image[p] \in {0, One}

(* Manual threshold 0.5 without smoothing was applied to a binary image.   *)
ManualHalfOnBinary ==
    /\ Returned
    /\ threshold_operation(settings) = TM_MANUAL
    /\ 2 * settings.manual_threshold = One
    /\ settings.threshold_smoothing_scale = 0
    /\ BinaryInput

(* C8 as claimed: Manual threshold 0.5 without smoothing reproduces a      *)
(* binary input at every pixel, whatever the mask.                         *)
C8_ReproducesInput ==
    ManualHalfOnBinary =>
        \A p \in DOMAIN input.image : ret.binary_image[p] <=> (input.image[p] = One)

(* C8 as amended: Manual threshold 0.5 without smoothing reproduces a      *)
(* binary input at every valid pixel, and every masked pixel is            *)
(* background.                                                             *)
C8_ReproducesValidInput ==
    ManualHalfOnBinary =>
        \A p \in DOMAIN input.image :
            ret.binary_image[p] <=> (input.mask[p] /\ input.image[p] = One)

(* Manual 0.5 on a binary image with a valid foreground pixel and a masked *)
(* pixel of intensity 1.                                                   *)
C8_Witness ==
    /\ ManualHalfOnBinary
    /\ \E p, q \in DOMAIN input.image :
          /\ input.mask[p] /\ input.image[p] = One /\ ret.binary_image[p]
          /\ ~input.mask[q] /\ input.image[q] = One /\ ~ret.binary_image[q]

(* The configuration errors among the parameters the active branch uses:   *)
(* an inverted threshold range for any method but Manual, a non-positive   *)
(* window under the Adaptive strategy, outlier fractions that sum to 1 or  *)
(* more for Robust Background.                                             *)
MisconfiguredFor(s) ==
    \/ threshold_operation(s) # TM_MANUAL /\ s.threshold_range.min > s.threshold_range.max
    \/ s.threshold_scope = TS_ADAPTIVE /\ s.adaptive_window_size <= 0
    \/ /\ threshold_operation(s) = TM_ROBUST_BACKGROUND
       /\ s.lower_outlier_fraction + s.upper_outlier_fraction >= One

(* C9: a configuration error is fatal to the call in every branch: under   *)
(* such a configuration get_threshold raises, and no threshold, no binary  *)
(* image and no measurement is produced.                                   *)
C9_ConfigurationErrorIsFatal ==
    (ret # NotCalled /\ MisconfiguredFor(settings)) =>
        /\ ret.raised # "none"
        /\ ret.final_threshold.kind = "None"
        /\ ret.binary_image = <<>>
        /\ workspace = EmptyWorkspace

(* C10: validate_module raises a ValidationError, naming the upper outlier *)
(* fraction, exactly when the active method is Robust Background and the   *)
(* two outlier fractions sum to 1 or more; otherwise it raises nothing.    *)
C10_ValidationExact ==
    validation # NotValidated =>
        LET active == IF settings.threshold_scope = TS_GLOBAL
                      THEN settings.global_operation
                      ELSE settings.local_operation
            too_much == settings.lower_outlier_fraction
                            + settings.upper_outlier_fraction >= One
        IN  IF active = TM_ROBUST_BACKGROUND /\ too_much
            THEN validation = [raised |-> "ValidationError",
                               setting |-> "upper_outlier_fraction"]
            ELSE validation.raised = "none"

(* Under the Adaptive strategy, with Robust Background as the adaptive     *)
(* operation and not as the global one, fractions that sum to exactly 1    *)
(* were refused.                                                           *)
C10_Witness ==
    /\ validation.raised = "ValidationError"
    /\ settings.threshold_scope = TS_ADAPTIVE
    /\ settings.local_operation = TM_ROBUST_BACKGROUND
    /\ settings.global_operation # TM_ROBUST_BACKGROUND
    /\ settings.lower_outlier_fraction + settings.upper_outlier_fraction = One

(* The settings s with the other value of the log_transform setting.       *)
OtherLogTransform(s) == [s EXCEPT !.log_transform = ~s.log_transform]

(* C11: when the active method is Robust Background, Sauvola, Manual or    *)
(* Measurement, the run that differs from the last one only in the value   *)
(* of log_transform makes the same library calls (the same log_transform   *)
(* reaches the engine) and returns the same result.                        *)
C11_LogTransformOnlyLiOtsu ==
    (/\ ret # NotCalled
     /\ threshold_operation(settings) \in
            {TM_ROBUST_BACKGROUND, TM_SAUVOLA, TM_MANUAL, TM_MEASUREMENT}) =>
        \A est \in Estimates(settings) :
            get_threshold(settings, input, est).ret = ret =>
                LET other == get_threshold(OtherLogTransform(settings), input, est)
                IN  /\ other.calls = calls
                    /\ other.ret = ret

(* C12: with the samples, the outlier fractions, the averaging method and  *)
(* the variance method held fixed, the Robust Background threshold never   *)
(* decreases when number_of_deviations increases, negative numbers         *)
(* included.                                                               *)
C12_RobustBackgroundMonotone ==
    (rb.called /\ rb.earlier # <<>> /\ rb.estimate.raised = "none") =>
        LET before == rb.earlier[1]
        IN  /\ before.number_of_deviations < rb.number_of_deviations =>
                  before.estimate.threshold <= rb.estimate.threshold
            /\ before.number_of_deviations > rb.number_of_deviations =>
                  before.estimate.threshold >= rb.estimate.threshold

(* Two estimates over samples that are not all equal, the first with a     *)
(* negative number of deviations and the second with a larger one, and the *)
(* second threshold strictly above the first.                              *)
C12_Witness ==
    /\ rb.called
    /\ rb.earlier # <<>>
    /\ rb.estimate.raised = "none"
    /\ rb.earlier[1].number_of_deviations < 0
    /\ rb.earlier[1].number_of_deviations < rb.number_of_deviations
    /\ rb.earlier[1].estimate.threshold < rb.estimate.threshold

(* C13: upgrade_settings called with a revision below 7 raises             *)
(* NotImplementedError and returns no settings, upgraded in part or in     *)
(* whole; with a revision of 7 or more it does not raise it.               *)
C13_OldRevisionsRefused ==
    upgrade.called =>
        IF upgrade.variable_revision_number <= 6
        THEN /\ upgrade.result.raised = "NotImplementedError"
             /\ upgrade.result.setting_values = <<>>
             /\ upgrade.result.steps = <<>>
        ELSE upgrade.result.raised = "none"

(* upgrade_settings was called with revision 6 and raised.                 *)
C13_Witness ==
    /\ upgrade.called
    /\ upgrade.variable_revision_number = 6
    /\ upgrade.result.raised = "NotImplementedError"

EngineCalled == Len(calls) = 1 /\ calls[1].fn = "threshold"

(* The operation of the active strategy, and the setting that holds the    *)
(* operation of the inactive one.                                          *)
ActiveOperation ==
    IF settings.threshold_scope = TS_GLOBAL
    THEN settings.global_operation
    ELSE settings.local_operation
InactiveSetting ==
    IF settings.threshold_scope = TS_GLOBAL THEN "local_operation" ELSE "global_operation"

(* out is name with each space and each hyphen replaced by an underscore   *)
(* and every other character kept.                                         *)
SameButUnderscores(name, out) ==
    /\ Len(out) = Len(name)
    /\ \A i \in 1..Len(name) :
          SubSeq(out, i, i) = IF SubSeq(name, i, i) \in {" ", "-"}
                              THEN "_"
                              ELSE SubSeq(name, i, i)

(* SameButUnderscores for every operation and every method name of the     *)
(* engine.                                                                 *)
NameMatches ==
    [name \in GlobalOperations \cup LocalOperations |->
        [out \in EngineMethods |-> SameButUnderscores(name, out)]]

(* C14: when get_threshold calls the engine, the method name it passes is  *)
(* "multiotsu" exactly when the active operation is Otsu and two_class_otsu*)
(* is "Three classes", and otherwise the active operation's name with each *)
(* space and hyphen replaced by an underscore; whatever operation the      *)
(* inactive strategy holds, the name passed is the same.                   *)
C14_MethodNameOfActiveOperation ==
    EngineCalled =>
        LET method == calls[1].threshold_method
        IN  /\ method = "multiotsu" <=>
                  (ActiveOperation = TM_OTSU /\ settings.two_class_otsu = O_THREE_CLASS)
            /\ method # "multiotsu" =>
                  /\ method \in EngineMethods
                  /\ NameMatches[ActiveOperation][method]
            /\ \A operation \in SettingValues[InactiveSetting] :
                  threshold_arguments([settings EXCEPT ![InactiveSetting] = operation],
                                      input).threshold_method = method

(* The engine was called under the Adaptive strategy with "multiotsu": the *)
(* adaptive operation is Otsu with three classes, and the inactive global  *)
(* operation is Minimum Cross-Entropy.                                     *)
C14_Witness ==
    /\ EngineCalled
    /\ settings.threshold_scope = TS_ADAPTIVE
    /\ settings.local_operation = TM_OTSU
    /\ settings.global_operation = TM_LI
    /\ settings.two_class_otsu = O_THREE_CLASS
    /\ calls[1].threshold_method = "multiotsu"

(* C15: whatever the strategy, the global operation and the adaptive       *)
(* operation are, get_threshold never calls the engine with strategy       *)
(* Global and method Sauvola.                                              *)
C15_SauvolaOnlyAdaptive ==
    \A i \in DOMAIN calls :
        calls[i].fn = "threshold" =>
            ~(calls[i].threshold_scope = TS_GLOBAL /\ calls[i].threshold_method = "Sauvola")

(* The engine was called under the Global strategy while the adaptive      *)
(* operation is Sauvola.                                                   *)
C15_Witness ==
    /\ EngineCalled
    /\ Returned
    /\ settings.threshold_scope = TS_GLOBAL
    /\ settings.local_operation = TM_SAUVOLA
    /\ calls[1].threshold_scope = TS_GLOBAL

(* The (object, feature) pairs of the measurements the last run wrote, of  *)
(* the columns get_measurement_columns declares, and of the features       *)
(* get_measurements lists for category Threshold.                          *)
WrittenMeasurements ==
    {<<workspace.measurements[i].object, workspace.measurements[i].feature>> :
        i \in DOMAIN workspace.measurements}
DeclaredColumns ==
    LET columns == get_measurement_columns(settings, settings.y_name)
    IN  {<<columns[i][1], columns[i][2]>> : i \in DOMAIN columns}
ListedFeatures ==
    LET features == get_measurements(settings, "Image", "Threshold")
    IN  {features[i] : i \in DOMAIN features}

(* The measurement the last run wrote for a feature.                       *)
Written(feature) ==
    LET i == CHOOSE k \in DOMAIN workspace.measurements :
                 workspace.measurements[k].feature
                     = "Threshold_" \o feature \o "_" \o settings.y_name
    IN  workspace.measurements[i].value

RECURSIVE SumOfFirst(_, _)
(* The sum of the first n elements of an array.                            *)
SumOfFirst(array, n) == IF n = 0 THEN 0 ELSE SumOfFirst(array, n - 1) + array[n]

(* The recorded value (a fraction) is the mean of the threshold: the       *)
(* threshold itself when it is a scalar.                                   *)
IsMeanOf(recorded, value) ==
    IF value.kind = "scalar"
    THEN recorded.num = value.val * recorded.den
    ELSE recorded.num * Len(value.val) = recorded.den * SumOfFirst(value.val, Len(value.val))

(* C16: under either strategy the Image measurements one run() writes are  *)
(* the final threshold, the original threshold, the weighted variance and  *)
(* the sum of entropies, and the guide threshold exactly under Adaptive;   *)
(* each is written once; they are the columns get_measurement_columns      *)
(* declares and correspond one-to-one to the features get_measurements     *)
(* lists for category Threshold; the final and the original threshold are  *)
(* recorded as the mean of the value.                                      *)
C16_MeasurementsAsDeclared ==
    Returned =>
        LET expected == {"FinalThreshold", "OrigThreshold", "WeightedVariance",
                         "SumOfEntropies"}
                        \cup (IF settings.threshold_scope = TS_ADAPTIVE
                              THEN {"GuideThreshold"} ELSE {})
            name(feature) == <<"Image", "Threshold_" \o feature \o "_" \o settings.y_name>>
        IN  /\ WrittenMeasurements = {name(feature) : feature \in expected}
            /\ Cardinality(WrittenMeasurements) = Len(workspace.measurements)
            /\ WrittenMeasurements = DeclaredColumns
            /\ Len(get_measurement_columns(settings, settings.y_name))
                   = Cardinality(DeclaredColumns)
            /\ ListedFeatures = expected
            /\ Len(get_measurements(settings, "Image", "Threshold"))
                   = Cardinality(ListedFeatures)
            /\ {name(feature) : feature \in ListedFeatures} = WrittenMeasurements
            /\ IsMeanOf(Written("FinalThreshold"), ret.final_threshold)
            /\ IsMeanOf(Written("OrigThreshold"), ret.orig_threshold)

(* A completed run under the Adaptive strategy whose final threshold       *)
(* differs between two pixels and whose guide threshold was written.       *)
C16_Witness ==
    /\ Returned
    /\ settings.threshold_scope = TS_ADAPTIVE
    /\ \E p, q \in DOMAIN ret.final_threshold.val :
          ret.final_threshold.val[p] # ret.final_threshold.val[q]
    /\ Len(workspace.measurements) = 5
    /\ GuideMeasurements # {}

(* The writes of the log that add a threshold measurement, a               *)
(* foreground/background measurement, and the output image.                *)
ThresholdWrites ==
    {i \in DOMAIN workspace.log :
        /\ workspace.log[i].op = "add_measurement"
        /\ workspace.log[i].name \in
               {"Threshold_" \o f \o "_" \o settings.y_name :
                    f \in {"FinalThreshold", "OrigThreshold", "GuideThreshold"}}}
ForegroundBackgroundWrites ==
    {i \in DOMAIN workspace.log :
        /\ workspace.log[i].op = "add_measurement"
        /\ workspace.log[i].name \in
               {"Threshold_" \o f \o "_" \o settings.y_name :
                    f \in {"WeightedVariance", "SumOfEntropies"}}}
ImageWrites == {i \in DOMAIN workspace.log : workspace.log[i].op = "image_set.add"}

(* C17: if get_threshold raised, run added no measurement and no image to  *)
(* the workspace; in a completed run the threshold measurements are        *)
(* written before the foreground/background measurements, and the output   *)
(* image is added once, after every measurement.                           *)
C17_NoPartialOutput ==
    /\ (ret # NotCalled /\ ~Returned) =>
          /\ workspace.measurements = <<>>
          /\ workspace.images = <<>>
          /\ workspace.log = <<>>
    /\ Returned =>
          /\ ThresholdWrites # {}
          /\ ForegroundBackgroundWrites # {}
          /\ Len(workspace.log) = Len(workspace.measurements) + Len(workspace.images)
          /\ \A i \in ThresholdWrites : \A j \in ForegroundBackgroundWrites : i < j
          /\ ImageWrites = {Len(workspace.log)}
          /\ Len(workspace.images) = 1
          /\ workspace.images[1].name = settings.y_name
          /\ workspace.images[1].pixel_data = ret.binary_image

(* The engine was called and raised, and the workspace is as it was.       *)
C17_Witness ==
    /\ EngineCalled
    /\ ret.raised = "ConfigurationError"
    /\ workspace = EmptyWorkspace

(* C19: every row of the result of create_ijv is a triple (i, j, v) where  *)
(* i is a row index of the matrix, j a column index and v = dense[i, j].   *)
C19_RowsAreRowColumnLabel ==
    ijv_call.called =>
        \A k \in DOMAIN ijv_call.result :
            LET i == ijv_call.result[k][1]
                j == ijv_call.result[k][2]
                v == ijv_call.result[k][3]
            IN  /\ Len(ijv_call.result[k]) = 3
                /\ i \in 0..(Len(ijv_call.given) - 1)
                /\ j \in 0..(Len(ijv_call.given[1]) - 1)
                /\ v = ijv_call.given[i + 1][j + 1]

(* The positions (row, column) of the matrix that hold a label.            *)
LabelledPositions ==
    {<<i, j>> \in (0..(Len(ijv_call.given) - 1)) \X (0..(Len(ijv_call.given[1]) - 1)) :
        ijv_call.given[i + 1][j + 1] # 0}

(* The position a triple of the result is emitted for: its second          *)
(* component is the row and its first the column.                          *)
PositionOf(triple) == <<triple[2], triple[1]>>

(* Position a comes before position b in the row-major scan.               *)
ScannedBefore(a, b) == a[1] < b[1] \/ (a[1] = b[1] /\ a[2] < b[2])

(* C20: create_ijv emits one triple for each position of the matrix that   *)
(* holds a non-zero value and none for a position that holds 0, so that    *)
(* the number of triples is the number of non-zero entries; the triples    *)
(* come in the row-major scan order of their positions, each with the      *)
(* label at its position; the matrix is not modified.                      *)
C20_OneTriplePerLabelInScanOrder ==
    ijv_call.called =>
        /\ Len(ijv_call.result) = Cardinality(LabelledPositions)
        /\ \A position \in LabelledPositions :
              Cardinality({k \in DOMAIN ijv_call.result :
                              PositionOf(ijv_call.result[k]) = position}) = 1
        /\ \A k \in DOMAIN ijv_call.result :
              /\ PositionOf(ijv_call.result[k]) \in LabelledPositions
              /\ ijv_call.result[k][3]
                     = ijv_call.given[PositionOf(ijv_call.result[k])[1] + 1][PositionOf(ijv_call.result[k])[2] + 1]
        /\ \A k, l \in DOMAIN ijv_call.result :
              k < l => ScannedBefore(PositionOf(ijv_call.result[k]), PositionOf(ijv_call.result[l]))
        /\ ijv_call.dense = ijv_call.given

(* create_ijv was called on a matrix with a background position and three  *)
(* labelled positions in two rows, and returned three triples.             *)
C20_Witness ==
    /\ ijv_call.called
    /\ Len(ijv_call.given) = 2
    /\ Cardinality(LabelledPositions) = 3
    /\ Len(ijv_call.result) = 3
    /\ ijv_call.given[1][1] = 0

(* The call under way was given a revision upgrade_settings supports.      *)
Supported == upgrade.called /\ upgrade.variable_revision_number \in 7..variable_revision_number

(* The steps applied so far are distinct steps out of 7..11 in increasing  *)
(* order, none of them below the revision the call was given.              *)
StepsInOrder ==
    LET steps == upgrade.result.steps
    IN  /\ \A k \in 1..Len(steps) :
               steps[k] \in 7..11 /\ steps[k] >= upgrade.variable_revision_number
        /\ \A k \in 1..(Len(steps) - 1) : steps[k] < steps[k + 1]

(* What a supported call holds when it has returned.                       *)
ReturnedCurrentRevision ==
    /\ upgrade.result.raised = "none"
    /\ upgrade.result.variable_revision_number = variable_revision_number
    /\ upgrade.result.variable_revision_number = 12
    /\ upgrade.variable_revision_number = 12 =>
           /\ upgrade.result.steps = <<>>
           /\ upgrade.result.setting_values = upgrade.setting_values
    /\ upgrade.result =
           upgrade_settings(upgrade.setting_values, upgrade.variable_revision_number)

(* C21: a call of upgrade_settings with a revision of 7 to 12 comes to its *)
(* return statement and returns revision 12, the module's                  *)
(* variable_revision_number; at every moment of the call the steps applied *)
(* so far are distinct and in increasing revision order; and a call with   *)
(* revision 12 returns the setting values it was given.                    *)
C21_UpgradeReachesCurrentRevision ==
    /\ [](Supported => StepsInOrder)
    /\ []((Supported /\ upgrade.pc = "returned") => ReturnedCurrentRevision)
    /\ \A revision \in 7..12 :
           (upgrade.called /\ upgrade.variable_revision_number = revision)
               ~> (/\ upgrade.called
                   /\ upgrade.variable_revision_number = revision
                   /\ upgrade.pc = "returned"
                   /\ upgrade.result.variable_revision_number = 12)

(* A call with revision 7 has returned after the five steps, each once.    *)
C21_Witness ==
    /\ upgrade.called
    /\ upgrade.variable_revision_number = 7
    /\ upgrade.pc = "returned"
    /\ upgrade.result.steps = <<7, 8, 9, 10, 11>>
    /\ upgrade.result.variable_revision_number = 12

(* The 9->10 step is among the steps the call has applied.                 *)
Applied9 ==
    /\ upgrade.called
    /\ upgrade.result.raised = "none"
    /\ \E k \in 1..Len(upgrade.result.steps) : upgrade.result.steps[k] = 9

(* The statement at line 1048 finds revision 9 and a strategy of Manual or *)
(* Measurement.                                                            *)
ManualOrMeasurementAt9 ==
    /\ at("1048")
    /\ upgrade.result.variable_revision_number = 9
    /\ Item(upgrade.result.setting_values, 2) \in {TM_MANUAL, TM_MEASUREMENT}

(* C22: once upgrade_settings has applied the 9->10 step, the strategy at  *)
(* index 2 is not Manual or Measurement, up to the return; the step moves  *)
(* a strategy of Manual or Measurement to the method at index 3, whatever  *)
(* the method was, and makes the strategy Global; and a call with revision *)
(* 9 returns them so.                                                      *)
C22_ManualMeasurementBecomeMethod ==
    /\ [](Applied9 =>
              Item(upgrade.result.setting_values, 2) \notin {TM_MANUAL, TM_MEASUREMENT})
    /\ [][(ManualOrMeasurementAt9 /\ IfRevision9) =>
              /\ Item(upgrade'.result.setting_values, 3)
                     = Item(upgrade.result.setting_values, 2)
              /\ Item(upgrade'.result.setting_values, 2) = TS_GLOBAL
              /\ upgrade'.result.steps = Append(upgrade.result.steps, 9)]_vars
    /\ []((/\ at("returned")
           /\ upgrade.variable_revision_number = 9
           /\ Item(upgrade.setting_values, 2) \in {TM_MANUAL, TM_MEASUREMENT}) =>
              /\ Item(upgrade.result.setting_values, 3) = Item(upgrade.setting_values, 2)
              /\ Item(upgrade.result.setting_values, 2) = TS_GLOBAL)

(* A call with revision 9, strategy Manual and method Otsu has returned    *)
(* with Manual as the method.                                              *)
C22_Witness ==
    /\ at("returned")
    /\ upgrade.variable_revision_number = 9
    /\ Item(upgrade.setting_values, 2) = TM_MANUAL
    /\ Item(upgrade.setting_values, 3) = "Otsu"
    /\ Applied9
    /\ Item(upgrade.result.setting_values, 3) = TM_MANUAL

====
